---- MODULE Spec2Model ----
(***************************************************************************)
(* User lifecycle service (app/services/user_service.py) and retention     *)
(* analytics service (app/services/analytics_service.py) over the two      *)
(* tables of app/models/user_model.py.  Every handler is one atomic        *)
(* action: the sequential behaviour of the service.                        *)
(***************************************************************************)
EXTENDS Integers, Sequences, FiniteSets, TLC

\* ------------------------------------------------------------- bounds
\* Number of primary keys (uuid4 values) the store ever hands out.
MaxIds == 2
\* Largest count a scalar query returns in SpecRate.
MaxCount == 10
\* Number of requests served at the same time in SpecConc.
MaxProcs == 2
\* Latest reading of the wall clock in SpecAuth and SpecSnapshot.
MaxTime == 1
\* Number of rows written to retention_analytics in SpecSnapshot.
MaxSnapshots == 2
\* Hours around each inactivity threshold at which SpecInactive places a
\* last login.
MaxSkew == 1

\* ---------------------------------------------------------- constants
\* settings.max_login_attempts, read by login_user.  The configuration is
\* outside the sources; 2 is the smallest threshold that tells the first
\* failed attempt from the locking one.
MaxLoginAttempts == 2

\* Python None / SQL NULL in a string-valued place.
None == "None"
\* SQL NULL in last_login_at.
NullTime == -1
\* "no row": the result of a lookup that found nothing.
NoUser == 0

Roles == {"ANONYMOUS", "AUTHENTICATED", "MANAGER", "ADMIN"}

\* ------------------------------------------------------------- inputs
Ids == 1..MaxIds
Emails == {"a@x.io", "b@x.io"}
BadEmail == "not-an-email"
Passwords == {"pw1", "pw2"}
\* The passwords create and reset_password are given under Spec; login is
\* tried with every password.
RegisteredPasswords == {"pw1"}
NicknamePool == {"clever_fox", "brave_owl"}
BadNickname == "no good"
ActorRoles == {"ADMIN", "MANAGER"}

\* generate_verification_token(): an unguessable value, fresh on every call;
\* the n-th row's token is named after n.
generate_verification_token(n) == "tok" \o ToString(n)
Tokens == {generate_verification_token(n) : n \in Ids}

hash_password(p) == "h:" \o p
verify_password(p, h) == h = hash_password(p)

\* -------------------------------------------------------------- state
VARIABLES
    users,        \* the users table: id -> row
    nextId,       \* number of primary keys handed out so far
    created_ever, \* history: number of rows create has committed
    snapshots,    \* the retention_analytics table, in insertion order
    outbox,       \* emails the email service was asked to deliver
    now,          \* the wall clock
    verified_ok,  \* history: ids verify_email_with_token has returned True for
    last,         \* the call that has just returned, or Idle
    inflight      \* the call each request is in the middle of

vars == <<users, nextId, created_ever, snapshots, outbox, now, verified_ok,
          last, inflight>>

\* ------------------------------------------------------------ the store
\* Column defaults of User applied at INSERT (user_model.py 56-79).
UserDefaults ==
    [ email |-> None, nickname |-> None, hashed_password |-> None,
      role |-> None, email_verified |-> FALSE,
      verification_token |-> None, failed_login_attempts |-> 0,
      is_locked |-> FALSE, last_login_at |-> NullTime,
      invited_by_user_id |-> NoUser ]

\* A users table without the unique indexes.
ConstraintsOK_without_unique(us, id, row) ==
    /\ row.nickname # None
    /\ row.email # None
    /\ row.role # None
    /\ row.hashed_password # None
    /\ row.invited_by_user_id \in DOMAIN us \cup {NoUser}

\* The constraints the users table checks when a row is flushed:
\* nullable=False on nickname, email, role, hashed_password,
\* unique=True on nickname and email, ForeignKey("users.id") on
\* invited_by_user_id.  `id` is the row's own id.
ConstraintsOK(us, id, row) ==
    /\ row.nickname # None
    /\ row.email # None
    /\ row.role # None
    /\ row.hashed_password # None
    /\ \A v \in DOMAIN us \ {id} :
          us[v].email # row.email /\ us[v].nickname # row.nickname
    /\ row.invited_by_user_id \in DOMAIN us \cup {NoUser}

Insert(us, id, row) ==
    [i \in DOMAIN us \cup {id} |-> IF i = id THEN row ELSE us[i]]

get_by_email(us, email) ==
    LET S == {u \in DOMAIN us : us[u].email = email}
    IN  IF S = {} THEN NoUser ELSE CHOOSE u \in S : TRUE

get_by_nickname(us, nickname) ==
    LET S == {u \in DOMAIN us : us[u].nickname = nickname}
    IN  IF S = {} THEN NoUser ELSE CHOOSE u \in S : TRUE

get_by_id(us, id) == IF id \in DOMAIN us THEN id ELSE NoUser

count(us) == Cardinality(DOMAIN us)

\* ------------------------------------------------------ the call record
\* A call leaves its arguments, its return value ("Raised": an exception
\* left the handler), the line it logged last, the row it returned or
\* resolved, and the store as it was when the call began.
NoPatch == [role |-> None, nickname |-> None]

NoArgs ==
    [ user_id |-> NoUser, email |-> None, password |-> None, token |-> None,
      patch |-> NoPatch, actor_role |-> None ]

Before ==
    [ users |-> users, outbox |-> outbox, snapshots |-> snapshots,
      verified_ok |-> verified_ok ]

Idle ==
    [ op |-> "idle", args |-> NoArgs, ret |-> None, log |-> None,
      user |-> NoUser, data |-> <<>>,
      before |-> [ users |-> <<>>, outbox |-> <<>>, snapshots |-> <<>>,
                   verified_ok |-> {} ] ]

Call(op, args, ret, log, user) ==
    [ op |-> op, args |-> args, ret |-> ret, log |-> log, user |-> user,
      data |-> <<>>, before |-> Before ]

\* The requests served at the same time, each with a session of its own.
Procs == 1..MaxProcs

\* A request that is in no call: the position in the call and its locals
\* (`user` is the row the session has loaded, under its id).
NotCalling ==
    [ pc |-> "idle", email |-> None, nickname |-> None, user_count |-> 0,
      password |-> None, user_id |-> NoUser, user |-> UserDefaults,
      total_anonymous |-> 0, total_authenticated |-> 0,
      inactive_24hr |-> 0, inactive_48hr |-> 0, inactive_1wk |-> 0,
      inactive_1yr |-> 0,
      counted |-> [anonymous |-> {}, authenticated |-> {}] ]

Init ==
    /\ users = <<>>
    /\ nextId = 0
    /\ created_ever = 0
    /\ snapshots = <<>>
    /\ outbox = <<>>
    /\ now = 0
    /\ verified_ok = {}
    /\ last = Idle
    /\ inflight = [p \in Procs |-> NotCalling]

\* The caller takes the result; the next call can begin.
Return ==
    /\ last # Idle
    /\ last' = Idle
    /\ UNCHANGED inflight
    /\ UNCHANGED <<users, nextId, created_ever, snapshots, outbox, now, verified_ok>>

\* ------------------------------------------------------------- create
\* UserCreate(**user_data): the schema accepts a well-formed email.
UserCreate_ok(email) == email \in Emails

\* A create that never promotes: every new row is ANONYMOUS.
first_role_never_admin(user_count) == "ANONYMOUS"

\* Role of a new row from the number of rows counted (user_service.py 74-75).
first_role(user_count) == IF user_count = 0 THEN "ADMIN" ELSE "ANONYMOUS"

\* The row create builds before session.add, from the number of rows it
\* counted (user_service.py 62-80).
user_row(email, password, nickname, id, user_count) ==
    LET role == first_role(user_count)
    IN  [UserDefaults EXCEPT
            !.email = email,
            !.hashed_password = hash_password(password),
            !.nickname = nickname,
            !.role = role,
            !.email_verified = (role = "ADMIN"),
            !.verification_token = generate_verification_token(id)]

\* The row of a create that nothing interleaves with: the count is that of
\* the table the row goes into.
new_user_row(us, email, password, nickname, id) ==
    user_row(email, password, nickname, id, count(us))

\* while await cls.get_by_nickname(session, new_nickname): the loop ends
\* with a nickname no row holds (user_service.py 68-71).
nickname_free(us, nickname) == get_by_nickname(us, nickname) = NoUser

\* A create that skips the lookup of the email.
existing_user_never(us, email) == NoUser

\* existing_user = await cls.get_by_email(...) (user_service.py 56-57).
existing_user(us, email) == get_by_email(us, email)

create(email, password, delivered) ==
    LET args == [NoArgs EXCEPT !.email = email, !.password = password]
    IN
    /\ last = Idle
    /\ UNCHANGED inflight
    /\ UNCHANGED <<snapshots, now, verified_ok>>
    /\ IF ~UserCreate_ok(email)
       THEN /\ last' = Call("create", args, "None",
                            "Validation error during user creation", NoUser)
            /\ UNCHANGED <<users, nextId, created_ever, outbox>>
       ELSE IF existing_user(users, email) # NoUser
       THEN /\ last' = Call("create", args, "None",
                            "User with given email already exists.", NoUser)
            /\ UNCHANGED <<users, nextId, created_ever, outbox>>
       ELSE /\ nextId < MaxIds
            /\ \E nickname \in NicknamePool :
                 /\ nickname_free(users, nickname)
                 /\ LET id == nextId + 1
                        row == new_user_row(users, email, password, nickname, id)
                    IN  IF ConstraintsOK(users, id, row)
                        THEN /\ users' = Insert(users, id, row)
                             /\ nextId' = id
                             /\ created_ever' = created_ever + 1
                             /\ outbox' = Append(outbox,
                                    [kind |-> "verification", to |-> email,
                                     token |-> row.verification_token])
                             /\ last' = Call("create", args,
                                     IF delivered THEN "User" ELSE "Raised",
                                     None, id)
                        ELSE \* IntegrityError leaves create: only
                             \* ValidationError is caught
                             /\ last' = Call("create", args, "Raised", None,
                                             NoUser)
                             /\ UNCHANGED <<users, nextId, created_ever,
                                            outbox>>

\* ------------------------------------------------------------- update
\* update_data as the routes pass it: a role and a nickname, each possibly
\* None.  The nickname is one of the pool, a malformed one, or None.
PatchNicknames == {"brave_owl", BadNickname, None}

Patches ==
    [ role : Roles \cup {None},
      nickname : PatchNicknames ]

\* An update that keeps the keys whose value is None.
cleaned_data_keeping_none(patch) == DOMAIN patch

\* cleaned_data: the keys of update_data whose value is not None
\* (user_service.py 110).
cleaned_data(patch) == {k \in DOMAIN patch : patch[k] # None}

\* UserUpdate(**cleaned_data): the schema accepts a well-formed nickname.
UserUpdate_ok(patch) == patch.nickname \in NicknamePool \cup {None}

\* An update without the permission step.
role_change_allowed_always(patch, actor_role) == TRUE

\* Step 3 of update: a role change needs an actor whose role is ADMIN
\* (user_service.py 125).
role_change_allowed(patch, actor_role) ==
    ~("role" \in cleaned_data(patch) /\ actor_role # "ADMIN")

\* update(User).where(User.id == user_id).values(**validated_data)
apply_values(row, patch) ==
    [k \in DOMAIN row |->
        IF k \in cleaned_data(patch) THEN patch[k] ELSE row[k]]

update(user_id, patch, actor_role) ==
    LET args == [NoArgs EXCEPT !.user_id = user_id, !.patch = patch,
                               !.actor_role = actor_role]
    IN
    /\ last = Idle
    /\ UNCHANGED inflight
    /\ UNCHANGED <<nextId, created_ever, snapshots, outbox, now>>
    /\ UNCHANGED verified_ok
    /\ IF cleaned_data(patch) = {}
       THEN /\ last' = Call("update", args, "None",
                            "No valid fields provided for update.", NoUser)
            /\ UNCHANGED users
       ELSE IF ~UserUpdate_ok(patch)
       THEN /\ last' = Call("update", args, "None", "Validation error", NoUser)
            /\ UNCHANGED users
       ELSE IF ~role_change_allowed(patch, actor_role)
       THEN /\ last' = Call("update", args, "None",
                            "Unauthorized role update attempt.", NoUser)
            /\ UNCHANGED users
       ELSE IF get_by_id(users, user_id) = NoUser
       THEN \* rowcount = 0
            /\ last' = Call("update", args, "None",
                            "User not found or update failed.", NoUser)
            /\ UNCHANGED users
       ELSE LET row == apply_values(users[user_id], patch)
            IN  IF ConstraintsOK(users, user_id, row)
                THEN /\ users' = [users EXCEPT ![user_id] = row]
                     /\ last' = Call("update", args, "User", "Updating user",
                                     user_id)
                ELSE \* IntegrityError: except Exception, rollback
                     /\ last' = Call("update", args, "None",
                                     "Error during user update", NoUser)
                     /\ UNCHANGED users

\* ------------------------------------------------------------- delete
\* ForeignKey("users.id") on invited_by_user_id: a referenced row cannot go.
referenced(us, id) == \E v \in DOMAIN us : us[v].invited_by_user_id = id

delete(user_id) ==
    LET args == [NoArgs EXCEPT !.user_id = user_id]
    IN
    /\ last = Idle
    /\ UNCHANGED inflight
    /\ UNCHANGED <<nextId, created_ever, snapshots, outbox, now>>
    /\ IF get_by_id(users, user_id) = NoUser
       THEN /\ last' = Call("delete", args, "False", "User not found.", NoUser)
            /\ UNCHANGED <<users, verified_ok>>
       ELSE IF referenced(users, user_id)
       THEN /\ last' = Call("delete", args, "Raised", None, user_id)
            /\ UNCHANGED <<users, verified_ok>>
       ELSE /\ users' = [i \in DOMAIN users \ {user_id} |-> users[i]]
            /\ verified_ok' = verified_ok \ {user_id}
            /\ last' = Call("delete", args, "True", None, user_id)

\* A mismatch branch that locks one attempt late.
failed_attempt_locking_late(row) ==
    LET n == row.failed_login_attempts + 1
    IN  [row EXCEPT !.failed_login_attempts = n,
                    !.is_locked = IF n > MaxLoginAttempts THEN TRUE ELSE @]

\* -------------------------------------------------------------- login
\* The mismatch branch of login_user (user_service.py 191-193).
failed_attempt(row) ==
    LET n == row.failed_login_attempts + 1
    IN  [row EXCEPT !.failed_login_attempts = n,
                    !.is_locked = IF n >= MaxLoginAttempts THEN TRUE ELSE @]

\* A match branch that forgets the counter.
successful_login_keeping_attempts(row, t) == [row EXCEPT !.last_login_at = t]

\* The match branch of login_user (user_service.py 184-186).
successful_login(row, t) ==
    [row EXCEPT !.failed_login_attempts = 0, !.last_login_at = t]

\* A login_user without the email_verified early return.
login_refused_ignoring_verification(us, user) ==
    \/ user = NoUser
    \/ us[user].is_locked

\* A login_user without the is_locked early return.
login_refused_ignoring_lock(us, user) ==
    \/ user = NoUser
    \/ us[user].email_verified = FALSE

\* The early returns of login_user (user_service.py 179-183).
login_refused(us, user) ==
    \/ user = NoUser
    \/ us[user].email_verified = FALSE
    \/ us[user].is_locked

login_user(email, password) ==
    LET args == [NoArgs EXCEPT !.email = email, !.password = password]
        user == get_by_email(users, email)
    IN
    /\ last = Idle
    /\ UNCHANGED inflight
    /\ UNCHANGED <<nextId, created_ever, snapshots, outbox, now>>
    /\ UNCHANGED verified_ok
    /\ IF login_refused(users, user)
       THEN /\ last' = Call("login", args, "None", None, user)
            /\ UNCHANGED users
       ELSE IF verify_password(password, users[user].hashed_password)
       THEN /\ users' = [users EXCEPT ![user] = successful_login(@, now)]
            /\ last' = Call("login", args, "User", None, user)
       ELSE /\ users' = [users EXCEPT ![user] = failed_attempt(@)]
            /\ last' = Call("login", args, "None", None, user)

\* ------------------------------------------------------------- invite
\* User(email=..., invited_by_user_id=..., verification_token=...): every
\* other column is left to its default (user_service.py 217-221).
invited_row(email, inviter_id, id) ==
    [UserDefaults EXCEPT
        !.email = email,
        !.invited_by_user_id = inviter_id,
        !.verification_token = generate_verification_token(id)]

invite_user(email, inviter_id, delivered) ==
    LET args == [NoArgs EXCEPT !.email = email, !.user_id = inviter_id]
        id == nextId + 1
        row == invited_row(email, inviter_id, id)
    IN
    /\ last = Idle
    /\ UNCHANGED inflight
    /\ UNCHANGED <<created_ever, snapshots, now, verified_ok>>
    /\ nextId < MaxIds
    /\ IF ConstraintsOK(users, id, row)
       THEN /\ users' = Insert(users, id, row)
            /\ nextId' = id
            /\ outbox' = Append(outbox,
                   [kind |-> "invitation", to |-> email,
                    token |-> row.verification_token])
            /\ last' = IF delivered
                       THEN Call("invite", args, "True", None, id)
                       ELSE Call("invite", args, "False",
                                 "Failed to invite user", id)
       ELSE \* IntegrityError at commit: except Exception, rollback
            /\ last' = Call("invite", args, "False", "Failed to invite user",
                            NoUser)
            /\ UNCHANGED <<users, nextId, outbox>>

\* ----------------------------------------------------- reset_password
\* A reset that leaves the lock in place.
password_reset_row_keeping_lock(row, new_password) ==
    [row EXCEPT !.hashed_password = hash_password(new_password),
                !.failed_login_attempts = 0]

\* The assignments of reset_password (user_service.py 247-249).
password_reset_row(row, new_password) ==
    [row EXCEPT !.hashed_password = hash_password(new_password),
                !.failed_login_attempts = 0,
                !.is_locked = FALSE]

reset_password(user_id, new_password) ==
    LET args == [NoArgs EXCEPT !.user_id = user_id, !.password = new_password]
    IN
    /\ last = Idle
    /\ UNCHANGED inflight
    /\ UNCHANGED <<nextId, created_ever, snapshots, outbox, now>>
    /\ UNCHANGED verified_ok
    /\ IF get_by_id(users, user_id) # NoUser
       THEN /\ users' = [users EXCEPT
                   ![user_id] = password_reset_row(@, new_password)]
            /\ last' = Call("reset_password", args, "True", None, user_id)
       ELSE /\ last' = Call("reset_password", args, "False", None, NoUser)
            /\ UNCHANGED users

\* -------------------------------------------- verify_email_with_token
\* user.verification_token == token (user_service.py 261).
token_matches(row, token) == row.verification_token = token

\* A verification that makes every verified user AUTHENTICATED.
verified_row_promoting_all(row) ==
    [row EXCEPT !.email_verified = TRUE,
                !.verification_token = None,
                !.role = "AUTHENTICATED"]

\* A verification that leaves the role alone.
verified_row_keeping_role(row) ==
    [row EXCEPT !.email_verified = TRUE, !.verification_token = None]

\* The row after a matching token (user_service.py 262-266).
verified_row(row) ==
    [row EXCEPT !.email_verified = TRUE,
                !.verification_token = None,
                !.role = IF @ = "ANONYMOUS" THEN "AUTHENTICATED" ELSE @]

verify_email_with_token(user_id, token) ==
    LET args == [NoArgs EXCEPT !.user_id = user_id, !.token = token]
    IN
    /\ last = Idle
    /\ UNCHANGED inflight
    /\ UNCHANGED <<nextId, created_ever, snapshots, outbox, now>>
    /\ IF user_id \notin DOMAIN users
       THEN /\ last' = Call("verify", args, "False", None, NoUser)
            /\ UNCHANGED <<users, verified_ok>>
       ELSE IF token_matches(users[user_id], token)
       THEN /\ users' = [users EXCEPT ![user_id] = verified_row(@)]
            /\ verified_ok' = verified_ok \cup {user_id}
            /\ last' = Call("verify", args, "True", None, user_id)
       ELSE /\ last' = Call("verify", args, "False", None, user_id)
            /\ UNCHANGED <<users, verified_ok>>

\* ------------------------------------------------ unlock_user_account
\* An unlock that does not look at is_locked.
unlock_applies_to_any(us, user_id) == get_by_id(us, user_id) # NoUser

\* `if user and user.is_locked` (user_service.py 289).
unlock_applies(us, user_id) ==
    get_by_id(us, user_id) # NoUser /\ us[user_id].is_locked

unlock_user_account(user_id) ==
    LET args == [NoArgs EXCEPT !.user_id = user_id]
    IN
    /\ last = Idle
    /\ UNCHANGED inflight
    /\ UNCHANGED <<nextId, created_ever, snapshots, outbox, now>>
    /\ UNCHANGED verified_ok
    /\ IF unlock_applies(users, user_id)
       THEN /\ users' = [users EXCEPT ![user_id].is_locked = FALSE,
                                      ![user_id].failed_login_attempts = 0]
            /\ last' = Call("unlock", args, "True", None, user_id)
       ELSE /\ last' = Call("unlock", args, "False", None, NoUser)
            /\ UNCHANGED users

\* ------------------------------------------------- log_user_activity
\* An activity log that also clears the failed attempts.
activity_row_clearing_attempts(row, t) ==
    [row EXCEPT !.last_login_at = t, !.failed_login_attempts = 0]

\* user.last_login_at = datetime.now(timezone.utc)
\* (analytics_service.py 14-15).
activity_row(row, t) == [row EXCEPT !.last_login_at = t]

log_user_activity(user_id) ==
    LET args == [NoArgs EXCEPT !.user_id = user_id]
    IN
    /\ last = Idle
    /\ UNCHANGED inflight
    /\ UNCHANGED <<nextId, created_ever, snapshots, outbox, now>>
    /\ UNCHANGED verified_ok
    /\ IF user_id \in DOMAIN users
       THEN /\ users' = [users EXCEPT ![user_id] = activity_row(@, now)]
            /\ last' = Call("log_user_activity", args, "None", None, user_id)
       ELSE /\ last' = Call("log_user_activity", args, "None", None, NoUser)
            /\ UNCHANGED users

\* --------------------------------------- calculate_retention_metrics
\* A string is a sequence of one-character strings.
Digit(d) == <<"0", "1", "2", "3", "4", "5", "6", "7", "8", "9">>[d + 1]

RECURSIVE IntStr(_)
IntStr(n) == IF n < 10 THEN <<Digit(n)>>
             ELSE Append(IntStr(n \div 10), Digit(n % 10))

\* A format that cuts the quotient after two fraction digits.
Format2f_truncated(num, den) ==
    LET h == (100 * num) \div den
    IN  IntStr(h \div 100) \o <<".", Digit((h % 100) \div 10), Digit(h % 10)>>

\* format(x, ".2f") of the quotient num / den: the nearest number of
\* hundredths, a tie going to the even one, with two fraction digits.
Format2f(num, den) ==
    LET q == (100 * num) \div den
        r == (100 * num) % den
        h == IF 2 * r > den THEN q + 1
             ELSE IF 2 * r < den THEN q
             ELSE q + (q % 2)
    IN  IntStr(h \div 100) \o <<".", Digit((h % 100) \div 10), Digit(h % 10)>>

\* conversion_rate of calculate_retention_metrics
\* (analytics_service.py 29-33).
conversion_rate(total_anonymous, total_authenticated) ==
    IF total_anonymous + total_authenticated > 0
    THEN Format2f(total_authenticated * 100,
                  total_anonymous + total_authenticated) \o <<"%">>
    ELSE <<"0", "%">>

total_anonymous(us) ==
    Cardinality({u \in DOMAIN us : us[u].role = "ANONYMOUS"})

total_authenticated(us) ==
    Cardinality({u \in DOMAIN us : us[u].role = "AUTHENTICATED"})

\* timedelta(hours=24), (hours=48), (weeks=1), (days=365), in hours.
Hours24 == 24
Hours48 == 48
HoursWeek == 168
HoursYear == 8760

\* A count that includes the users exactly at the threshold.
inactive_at_or_before(us, t, delta) ==
    Cardinality({u \in DOMAIN us :
        us[u].last_login_at # NullTime /\ us[u].last_login_at <= t - delta})

\* select(func.count()).where(User.last_login_at < now - delta): a NULL
\* last_login_at compares as unknown and the row is not counted.
inactive(us, t, delta) ==
    Cardinality({u \in DOMAIN us :
        us[u].last_login_at # NullTime /\ us[u].last_login_at < t - delta})

\* What the RetentionAnalytics constructor is given
\* (analytics_service.py 50-58).
analytics_kwargs(us, t) ==
    [ total_anonymous_users |-> total_anonymous(us),
      total_authenticated_users |-> total_authenticated(us),
      conversion_rate |->
          conversion_rate(total_anonymous(us), total_authenticated(us)),
      inactive_users_24hr |-> inactive(us, t, Hours24),
      inactive_users_48hr |-> inactive(us, t, Hours48),
      inactive_users_1wk |-> inactive(us, t, HoursWeek),
      inactive_users_1yr |-> inactive(us, t, HoursYear) ]

\* The mapped attributes of RetentionAnalytics (user_model.py 115-120).
RetentionAnalyticsColumns ==
    { "id", "timestamp", "total_anonymous_users", "total_authenticated_users",
      "conversion_rate", "inactive_users_24hr" }

\* The declarative constructor takes a keyword only if the class has the
\* attribute; any other keyword is a TypeError.
constructor_accepts(kwargs) == DOMAIN kwargs \subseteq RetentionAnalyticsColumns

\* Column default of RetentionAnalytics.timestamp: datetime.now(...) is
\* evaluated once, when the class is defined, at the start of the process.
timestamp_default == 0

snapshot_row(id, kwargs) ==
    [ id |-> id, timestamp |-> timestamp_default,
      total_anonymous_users |-> kwargs.total_anonymous_users,
      total_authenticated_users |-> kwargs.total_authenticated_users,
      conversion_rate |-> kwargs.conversion_rate,
      inactive_users_24hr |-> kwargs.inactive_users_24hr ]

\* db.add(analytics); await db.commit() (analytics_service.py 60-61).
add_and_commit(rows, kwargs) ==
    Append(rows, snapshot_row(Len(rows) + 1, kwargs))

calculate_retention_metrics ==
    LET kwargs == analytics_kwargs(users, now)
    IN
    /\ last = Idle
    /\ UNCHANGED inflight
    /\ UNCHANGED <<users, nextId, created_ever, outbox, now, verified_ok>>
    /\ IF constructor_accepts(kwargs)
       THEN /\ snapshots' = add_and_commit(snapshots, kwargs)
            /\ last' = [Call("calculate", NoArgs, "None", None, NoUser)
                            EXCEPT !.data = kwargs]
       ELSE \* TypeError before db.add
            /\ last' = [Call("calculate", NoArgs, "Raised", None, NoUser)
                            EXCEPT !.data = kwargs]
            /\ UNCHANGED snapshots

\* ------------------------------------------------- get_retention_data
\* order_by(RetentionAnalytics.timestamp.desc()): insertion sort, rows of
\* equal timestamp in insertion order.
RECURSIVE InsertDesc(_, _)
InsertDesc(sorted, row) ==
    IF sorted = <<>> THEN <<row>>
    ELSE IF Head(sorted).timestamp >= row.timestamp
         THEN <<Head(sorted)>> \o InsertDesc(Tail(sorted), row)
         ELSE <<row>> \o sorted

RECURSIVE order_by_timestamp_desc(_)
order_by_timestamp_desc(rows) ==
    IF rows = <<>> THEN <<>>
    ELSE InsertDesc(order_by_timestamp_desc(SubSeq(rows, 1, Len(rows) - 1)),
                    rows[Len(rows)])

\* result.scalars(): the first column of each row of the table select.
scalars(rows) == [i \in 1..Len(rows) |-> rows[i].id]

\* `await result.scalars().all()`: all() of the result of
\* AsyncSession.execute returns a list, and a list cannot be awaited.
all_is_awaitable == FALSE

get_retention_data ==
    LET analytics_data == scalars(order_by_timestamp_desc(snapshots))
    IN
    /\ last = Idle
    /\ UNCHANGED inflight
    /\ UNCHANGED <<users, nextId, created_ever, snapshots, outbox, now,
                   verified_ok>>
    /\ IF all_is_awaitable
       THEN last' = [Call("get_retention_data", NoArgs, "Rows", None, NoUser)
                        EXCEPT !.data = analytics_data]
       ELSE \* TypeError: object list can't be used in 'await' expression
            last' = Call("get_retention_data", NoArgs, "Raised", None, NoUser)

\* ------------------------------------------------------- next state
Next ==
    \/ \E e \in Emails \cup {BadEmail}, p \in RegisteredPasswords, d \in BOOLEAN :
          create(e, p, d)
    \/ \E u \in Ids, patch \in Patches, a \in ActorRoles : update(u, patch, a)
    \/ \E u \in Ids : delete(u)
    \/ \E e \in Emails, p \in Passwords : login_user(e, p)
    \/ \E e \in Emails, u \in Ids, d \in BOOLEAN : invite_user(e, u, d)
    \/ \E u \in Ids, p \in RegisteredPasswords : reset_password(u, p)
    \/ \E u \in Ids, t \in Tokens \cup {None} : verify_email_with_token(u, t)
    \/ \E u \in Ids : unlock_user_account(u)
    \/ \E u \in Ids : log_user_activity(u)
    \/ calculate_retention_metrics
    \/ get_retention_data
    \/ Return

Spec == Init /\ [][Next]_vars

\* ------------------------------------------- the conversion rate alone
\* The two counts calculate_retention_metrics reads are any two naturals;
\* the run formats their conversion rate.
RateRun(total_anon, total_auth, rate) ==
    [Idle EXCEPT !.op = "conversion_rate",
                 !.data = [ total_anonymous_users |-> total_anon,
                            total_authenticated_users |-> total_auth,
                            conversion_rate |-> rate ]]

InitRate ==
    /\ users = <<>>
    /\ nextId = 0
    /\ created_ever = 0
    /\ snapshots = <<>>
    /\ outbox = <<>>
    /\ now = 0
    /\ verified_ok = {}
    /\ inflight = [p \in Procs |-> NotCalling]
    /\ \E a \in 0..MaxCount, b \in 0..MaxCount : last = RateRun(a, b, <<>>)

ComputeRate ==
    /\ last.data.conversion_rate = <<>>
    /\ UNCHANGED inflight
    /\ last' = RateRun(last.data.total_anonymous_users,
                       last.data.total_authenticated_users,
                       conversion_rate(last.data.total_anonymous_users,
                                       last.data.total_authenticated_users))
    /\ UNCHANGED <<users, nextId, created_ever, snapshots, outbox, now,
                   verified_ok>>

SpecRate == InitRate /\ [][ComputeRate]_vars

\* ------------------------------------------------ create, step by step
\* Several requests run create at the same time.  Each await of create is
\* one step; between two steps of a request the others may run.  A step
\* waits until the result of the call that returned last has been taken.
\* The call record of a create that returns holds, as data, the nickname
\* and the count the call worked with.
CallCreate(c, ret, log, user) ==
    [Call("create", [NoArgs EXCEPT !.email = c.email], ret, log, user)
        EXCEPT !.data = [nickname |-> c.nickname, user_count |-> c.user_count]]

\* `await cls.get_by_email(...)` (user_service.py 55-59).
create_lookup(p, email) ==
    LET c == [NotCalling EXCEPT !.email = email]
    IN
    /\ last = Idle
    /\ inflight[p].pc = "idle"
    /\ UNCHANGED <<users, nextId, created_ever, snapshots, outbox, now,
                   verified_ok>>
    /\ IF ~UserCreate_ok(email)
       THEN /\ last' = CallCreate(c, "None",
                          "Validation error during user creation", NoUser)
            /\ UNCHANGED inflight
       ELSE IF existing_user(users, email) # NoUser
       THEN /\ last' = CallCreate(c, "None",
                          "User with given email already exists.", NoUser)
            /\ UNCHANGED inflight
       ELSE /\ inflight' = [inflight EXCEPT ![p] = [c EXCEPT !.pc = "nickname"]]
            /\ UNCHANGED last

\* `while await cls.get_by_nickname(...)` (user_service.py 68-71).
create_nickname(p) ==
    /\ last = Idle
    /\ inflight[p].pc = "nickname"
    /\ UNCHANGED <<users, nextId, created_ever, snapshots, outbox, now,
                   verified_ok, last>>
    /\ \E nickname \in NicknamePool :
          /\ nickname_free(users, nickname)
          /\ inflight' = [inflight EXCEPT ![p].pc = "count",
                                          ![p].nickname = nickname]

\* `user_count = await cls.count(session)` (user_service.py 73).
create_count(p) ==
    /\ last = Idle
    /\ inflight[p].pc = "count"
    /\ UNCHANGED <<users, nextId, created_ever, snapshots, outbox, now,
                   verified_ok, last>>
    /\ inflight' = [inflight EXCEPT ![p].pc = "commit",
                                    ![p].user_count = count(users)]

\* session.add, `await session.commit()`, the verification email and the
\* return (user_service.py 83-89).  A violated constraint is an
\* IntegrityError, which create does not catch.
create_commit(p, password, delivered) ==
    LET c == inflight[p]
        id == nextId + 1
        row == user_row(c.email, password, c.nickname, id, c.user_count)
    IN
    /\ last = Idle
    /\ c.pc = "commit"
    /\ nextId < MaxIds
    /\ UNCHANGED <<snapshots, now, verified_ok>>
    /\ inflight' = [inflight EXCEPT ![p] = NotCalling]
    /\ IF ConstraintsOK(users, id, row)
       THEN /\ users' = Insert(users, id, row)
            /\ nextId' = id
            /\ created_ever' = created_ever + 1
            /\ outbox' = Append(outbox,
                   [kind |-> "verification", to |-> c.email,
                    token |-> row.verification_token])
            /\ last' = CallCreate(c, IF delivered THEN "User" ELSE "Raised",
                                  None, id)
       ELSE /\ last' = CallCreate(c, "Raised", "IntegrityError", NoUser)
            /\ UNCHANGED <<users, nextId, created_ever, outbox>>

\* Concurrent creates, with invite_user and delete running between their
\* steps (neither awaits between its read and its commit).
NextConc ==
    \/ \E p \in Procs, e \in Emails \cup {BadEmail} : create_lookup(p, e)
    \/ \E p \in Procs : create_nickname(p)
    \/ \E p \in Procs : create_count(p)
    \/ \E p \in Procs, pw \in RegisteredPasswords, d \in BOOLEAN :
          create_commit(p, pw, d)
    \/ \E e \in Emails, u \in Ids, d \in BOOLEAN : invite_user(e, u, d)
    \/ \E u \in Ids : delete(u)
    \/ Return

SpecConc == Init /\ [][NextConc]_vars

\* ------------------------------------------------ sign-in over time
\* datetime.now(timezone.utc) moves on between two calls.
Tick ==
    /\ last = Idle
    /\ now < MaxTime
    /\ now' = now + 1
    /\ UNCHANGED <<users, nextId, created_ever, snapshots, outbox,
                   verified_ok, last, inflight>>

\* Registration and sign-in with every password, while the clock runs.
NextAuth ==
    \/ \E e \in Emails, p \in RegisteredPasswords, d \in BOOLEAN :
          create(e, p, d)
    \/ \E u \in Ids : delete(u)
    \/ \E e \in Emails, p \in Passwords : login_user(e, p)
    \/ \E u \in Ids, p \in Passwords : reset_password(u, p)
    \/ \E u \in Ids, t \in Tokens : verify_email_with_token(u, t)
    \/ \E u \in Ids : unlock_user_account(u)
    \/ \E u \in Ids : log_user_activity(u)
    \/ Tick
    \/ Return

SpecAuth == Init /\ [][NextAuth]_vars

\* ------------------------------------- rows of retention_analytics alone
\* The mapped class by itself: rows built by the constructor from keywords
\* it accepts and flushed with the column defaults, while the clock runs.
SnapshotCounts == 0..1

SnapshotKwargs ==
    { [ total_anonymous_users |-> a, total_authenticated_users |-> b,
        conversion_rate |-> conversion_rate(a, b),
        inactive_users_24hr |-> i ] :
      a \in SnapshotCounts, b \in SnapshotCounts, i \in SnapshotCounts }

insert_snapshot(kwargs) ==
    /\ last = Idle
    /\ constructor_accepts(kwargs)
    /\ Len(snapshots) < MaxSnapshots
    /\ snapshots' = add_and_commit(snapshots, kwargs)
    /\ last' = [Call("insert_snapshot", NoArgs, "None", None, NoUser)
                    EXCEPT !.data = kwargs]
    /\ UNCHANGED <<users, nextId, created_ever, outbox, now, verified_ok,
                   inflight>>

NextSnapshot ==
    \/ \E kwargs \in SnapshotKwargs : insert_snapshot(kwargs)
    \/ Tick
    \/ Return

SpecSnapshot == Init /\ [][NextSnapshot]_vars

\* --------------------------------------------- the inactivity windows
\* calculate_retention_metrics over stores whose users last logged in
\* around each threshold, or never.  A row with a last login is a
\* registered row log_user_activity has touched at that time.
Thresholds == {Hours24, Hours48, HoursWeek, HoursYear}

Clock == HoursYear + MaxSkew + 1

LoginTimes ==
    {Clock - delta + o : delta \in Thresholds, o \in (0 - MaxSkew)..MaxSkew}
        \cup {NullTime}

EmailList == <<"a@x.io", "b@x.io">>
NicknameList == <<"clever_fox", "brave_owl">>

registered_row(i, t) ==
    LET row == user_row(EmailList[i], "pw1", NicknameList[i], i, i - 1)
    IN  IF t = NullTime THEN row ELSE activity_row(row, t)

InitInactive ==
    /\ \E n \in 0..Len(EmailList) :
         /\ n <= MaxIds
         /\ \E times \in [1..n -> LoginTimes] :
              /\ users = [i \in 1..n |-> registered_row(i, times[i])]
              /\ outbox = [i \in 1..n |->
                     [kind |-> "verification", to |-> EmailList[i],
                      token |-> generate_verification_token(i)]]
         /\ nextId = n
         /\ created_ever = n
    /\ snapshots = <<>>
    /\ now = Clock
    /\ verified_ok = {}
    /\ last = Idle
    /\ inflight = [p \in Procs |-> NotCalling]

NextInactive ==
    \/ calculate_retention_metrics
    \/ Return

SpecInactive == InitInactive /\ [][NextInactive]_vars

\* ------------------------------------------- sign-ins that overlap
\* login_user in the two steps its awaits make: the load of the row, with
\* the checks and assignments that follow it without an await, and the
\* commit.  Sign-ins are tried with passwords nobody registered.
WrongPasswords == Passwords \ RegisteredPasswords

\* The object after the branch of login_user it takes
\* (user_service.py 184-193).
login_assignments(row, password, t) ==
    IF verify_password(password, row.hashed_password)
    THEN successful_login(row, t)
    ELSE failed_attempt(row)

\* The UPDATE of the flush: the columns whose value differs from the
\* loaded one are written, the others keep what the table holds.
flush(current, loaded, assigned) ==
    [f \in DOMAIN current |->
        IF assigned[f] # loaded[f] THEN assigned[f] ELSE current[f]]

\* `user = await cls.get_by_email(session, email)` and the early returns
\* (user_service.py 178-183).
login_load(p, email, password) ==
    LET args == [NoArgs EXCEPT !.email = email, !.password = password]
        user == get_by_email(users, email)
    IN
    /\ last = Idle
    /\ inflight[p].pc = "idle"
    /\ UNCHANGED <<users, nextId, created_ever, snapshots, outbox, now,
                   verified_ok>>
    /\ IF login_refused(users, user)
       THEN /\ last' = Call("login", args, "None", None, user)
            /\ UNCHANGED inflight
       ELSE /\ inflight' = [inflight EXCEPT ![p] =
                   [NotCalling EXCEPT !.pc = "commit", !.email = email,
                                      !.password = password,
                                      !.user_id = user,
                                      !.user = users[user]]]
            /\ UNCHANGED last

\* `session.add(user); await session.commit()` and the return
\* (user_service.py 187-189, 194-196).
login_commit(p) ==
    LET c == inflight[p]
        args == [NoArgs EXCEPT !.email = c.email, !.password = c.password]
        assigned == login_assignments(c.user, c.password, now)
    IN
    /\ last = Idle
    /\ c.pc = "commit"
    /\ UNCHANGED <<nextId, created_ever, snapshots, outbox, now, verified_ok>>
    /\ users' = [users EXCEPT ![c.user_id] = flush(@, c.user, assigned)]
    /\ inflight' = [inflight EXCEPT ![p] = NotCalling]
    /\ last' = Call("login", args,
                    IF verify_password(c.password, c.user.hashed_password)
                    THEN "User" ELSE "None",
                    None, c.user_id)

NextLoginRace ==
    \/ \E e \in Emails, pw \in RegisteredPasswords, d \in BOOLEAN :
          create(e, pw, d)
    \/ \E u \in Ids, t \in Tokens : verify_email_with_token(u, t)
    \/ \E p \in Procs, e \in Emails, pw \in WrongPasswords :
          login_load(p, e, pw)
    \/ \E p \in Procs : login_commit(p)
    \/ Return

SpecLoginRace == Init /\ [][NextLoginRace]_vars

\* ------------------------------- the metrics run among other requests
\* calculate_retention_metrics in the steps its awaits make: every count
\* is a statement of its own that reads what is committed when it runs.
\* The run belongs to the one periodic task of the process; `counted`
\* keeps the ids behind the two totals.
Scheduler == 1

RolePatches == {patch \in Patches : patch.nickname = None}

\* `total_anonymous = await db.scalar(...)` (analytics_service.py 22-25).
count_anonymous ==
    /\ last = Idle
    /\ inflight[Scheduler].pc = "idle"
    /\ inflight' = [inflight EXCEPT ![Scheduler] =
           [NotCalling EXCEPT
               !.pc = "authenticated",
               !.total_anonymous = total_anonymous(users),
               !.counted.anonymous =
                   {u \in DOMAIN users : users[u].role = "ANONYMOUS"}]]
    /\ UNCHANGED <<users, nextId, created_ever, snapshots, outbox, now,
                   verified_ok, last>>

\* `total_authenticated = await db.scalar(...)` (analytics_service.py 26).
count_authenticated ==
    /\ last = Idle
    /\ inflight[Scheduler].pc = "authenticated"
    /\ inflight' = [inflight EXCEPT
           ![Scheduler].pc = "inactive",
           ![Scheduler].total_authenticated = total_authenticated(users),
           ![Scheduler].counted.authenticated =
               {u \in DOMAIN users : users[u].role = "AUTHENTICATED"}]
    /\ UNCHANGED <<users, nextId, created_ever, snapshots, outbox, now,
                   verified_ok, last>>

\* The four inactivity queries (analytics_service.py 36-47).
count_inactive ==
    /\ last = Idle
    /\ inflight[Scheduler].pc = "inactive"
    /\ inflight' = [inflight EXCEPT
           ![Scheduler].pc = "construct",
           ![Scheduler].inactive_24hr = inactive(users, now, Hours24),
           ![Scheduler].inactive_48hr = inactive(users, now, Hours48),
           ![Scheduler].inactive_1wk = inactive(users, now, HoursWeek),
           ![Scheduler].inactive_1yr = inactive(users, now, HoursYear)]
    /\ UNCHANGED <<users, nextId, created_ever, snapshots, outbox, now,
                   verified_ok, last>>

\* The constructor call, db.add and db.commit
\* (analytics_service.py 28-32, 50-61).
construct_and_save ==
    LET c == inflight[Scheduler]
        kwargs ==
            [ total_anonymous_users |-> c.total_anonymous,
              total_authenticated_users |-> c.total_authenticated,
              conversion_rate |->
                  conversion_rate(c.total_anonymous, c.total_authenticated),
              inactive_users_24hr |-> c.inactive_24hr,
              inactive_users_48hr |-> c.inactive_48hr,
              inactive_users_1wk |-> c.inactive_1wk,
              inactive_users_1yr |-> c.inactive_1yr ]
    IN
    /\ last = Idle
    /\ c.pc = "construct"
    /\ inflight' = [inflight EXCEPT ![Scheduler] = NotCalling]
    /\ UNCHANGED <<users, nextId, created_ever, outbox, now, verified_ok>>
    /\ IF constructor_accepts(kwargs)
       THEN /\ snapshots' = add_and_commit(snapshots, kwargs)
            /\ last' = [Call("calculate", NoArgs, "None", None, NoUser)
                            EXCEPT !.data = [kwargs |-> kwargs,
                                             counted |-> c.counted]]
       ELSE \* TypeError before db.add
            /\ last' = [Call("calculate", NoArgs, "Raised", None, NoUser)
                            EXCEPT !.data = [kwargs |-> kwargs,
                                             counted |-> c.counted]]
            /\ UNCHANGED snapshots

NextMetrics ==
    \/ count_anonymous
    \/ count_authenticated
    \/ count_inactive
    \/ construct_and_save
    \/ \E e \in Emails, pw \in RegisteredPasswords, d \in BOOLEAN :
          create(e, pw, d)
    \/ \E u \in Ids, t \in Tokens : verify_email_with_token(u, t)
    \/ \E u \in Ids, patch \in RolePatches, a \in ActorRoles :
          update(u, patch, a)
    \/ \E u \in Ids : delete(u)
    \/ Return

SpecMetrics == Init /\ [][NextMetrics]_vars

\* ================================================================ claims
\* Every property below reads the call record: last.before is the store
\* when the call began, the variables are the store when it returned.

\* ------------------------------------------------------------------ C1
\* C1, as stated: a successful create returns a user that is ADMIN and
\* email-verified if it is the first row create has ever committed, and
\* otherwise ANONYMOUS, unverified, with a non-null token.
C1_FirstEverIsAdmin ==
    (last.op = "create" /\ last.ret = "User") =>
        LET row == users[last.user]
        IN  IF created_ever = 1
            THEN row.role = "ADMIN" /\ row.email_verified
            ELSE /\ row.role = "ANONYMOUS"
                 /\ ~row.email_verified
                 /\ row.verification_token # None

\* C1, amended: a successful create returns a user that is ADMIN and
\* email-verified if and only if the users table held no row when the call
\* began (the first create, and every create after the table has been
\* emptied again); otherwise the user is ANONYMOUS, unverified, with a
\* non-null token.
C1_EmptyStoreIsAdmin ==
    (last.op = "create" /\ last.ret = "User") =>
        LET row == users[last.user]
        IN  IF DOMAIN last.before.users = {}
            THEN row.role = "ADMIN" /\ row.email_verified
            ELSE /\ row.role = "ANONYMOUS"
                 /\ ~row.email_verified
                 /\ row.verification_token # None

\* A create that succeeds on an emptied table after an earlier create.
C1_Witness ==
    /\ last.op = "create"
    /\ last.ret = "User"
    /\ DOMAIN last.before.users = {}
    /\ created_ever = 2
    /\ users[last.user].role = "ADMIN"

\* ------------------------------------------------------------------ C2
\* C2: (a) a verified, unlocked user with failed_login_attempts =
\* max - 1 whose login fails on the password is locked by that call;
\* (b) a login for a locked user returns None and changes nothing, also
\* with the correct password; (c) a locked user stops being locked only by
\* an unlock_user_account or reset_password call for that user.
C2_Lockout ==
    LET B == last.before.users
        u == last.user
    IN
    /\ ( /\ last.op = "login"
         /\ u # NoUser
         /\ B[u].email_verified
         /\ ~B[u].is_locked
         /\ B[u].failed_login_attempts = MaxLoginAttempts - 1
         /\ B[u].hashed_password # hash_password(last.args.password) )
       => (last.ret = "None" /\ users[u].is_locked)
    /\ (last.op = "login" /\ u # NoUser /\ B[u].is_locked)
       => (last.ret = "None" /\ users = B)
    /\ \A v \in DOMAIN B \cap DOMAIN users :
          (B[v].is_locked /\ ~users[v].is_locked)
          => ( /\ last.op \in {"unlock", "reset_password"}
               /\ last.args.user_id = v )

\* A locked, verified user logs in with the correct password and is refused.
C2_Witness ==
    /\ last.op = "login"
    /\ last.user # NoUser
    /\ last.before.users[last.user].is_locked
    /\ last.before.users[last.user].email_verified
    /\ last.before.users[last.user].failed_login_attempts = MaxLoginAttempts
    /\ last.before.users[last.user].hashed_password
           = hash_password(last.args.password)
    /\ last.ret = "None"

\* ------------------------------------------------------------------ C3
\* C3: verify_email_with_token returns False and leaves every user
\* unchanged if the user is absent or the token differs from the stored
\* one; if the token matches it returns True, the user is email-verified,
\* the token is null, a role ANONYMOUS has become AUTHENTICATED, any other
\* role is kept, and nothing else of the store changes.
C3_Verify ==
    (last.op = "verify") =>
        LET B == last.before.users
            u == last.args.user_id
        IN  IF u \notin DOMAIN B \/ B[u].verification_token # last.args.token
            THEN last.ret = "False" /\ users = B
            ELSE /\ last.ret = "True"
                 /\ DOMAIN users = DOMAIN B
                 /\ users[u].email_verified
                 /\ users[u].verification_token = None
                 /\ (B[u].role = "ANONYMOUS" => users[u].role = "AUTHENTICATED")
                 /\ (B[u].role # "ANONYMOUS" => users[u].role = B[u].role)
                 /\ \A v \in DOMAIN B \ {u} : users[v] = B[v]
                 /\ \A k \in DOMAIN B[u] \ {"email_verified",
                                            "verification_token", "role"} :
                        users[u][k] = B[u][k]

\* An ANONYMOUS, unverified user presents the token it was issued.
C3_Witness ==
    /\ last.op = "verify"
    /\ last.ret = "True"
    /\ last.args.token \in Tokens
    /\ last.before.users[last.args.user_id].role = "ANONYMOUS"
    /\ ~last.before.users[last.args.user_id].email_verified
    /\ users[last.args.user_id].role = "AUTHENTICATED"

\* ------------------------------------------------------------------ C4
\* C4, as stated: once verify_email_with_token has returned True for a
\* user, every later verify_email_with_token call for that user returns
\* False and changes nothing (no operation issues a new token to an
\* existing user).
C4_SingleUse ==
    (last.op = "verify" /\ last.args.user_id \in last.before.verified_ok)
        => (last.ret = "False" /\ users = last.before.users)

\* ------------------------------------------------------------------ C5
\* The number a string of decimal digits denotes.
DigitValue(c) == CHOOSE d \in 0..9 : ToString(d) = c

RECURSIVE ParseNat(_)
ParseNat(s) ==
    IF s = <<>> THEN 0
    ELSE 10 * ParseNat(SubSeq(s, 1, Len(s) - 1)) + DigitValue(s[Len(s)])

DecimalDigits == {ToString(d) : d \in 0..9}

\* s is <digits> "." <digit> <digit> "%", without leading zeros.
IsPercentage(s) ==
    /\ Len(s) >= 5
    /\ s[Len(s)] = "%"
    /\ s[Len(s) - 3] = "."
    /\ \A i \in (1..Len(s)) \ {Len(s), Len(s) - 3} : s[i] \in DecimalDigits
    /\ (Len(s) > 5 => s[1] # "0")

\* The hundredths a percentage string denotes: "66.67%" denotes 6667.
Hundredths(s) ==
    100 * ParseNat(SubSeq(s, 1, Len(s) - 4))
        + 10 * DigitValue(s[Len(s) - 2]) + DigitValue(s[Len(s) - 1])

C6_OneRowPerRun ==
    (last.op = "calculate") =>
        /\ Len(snapshots) = Len(last.before.snapshots) + 1
        /\ SubSeq(snapshots, 1, Len(last.before.snapshots))
               = last.before.snapshots
        /\ LET row == snapshots[Len(snapshots)]
           IN  /\ row.total_anonymous_users = last.data.total_anonymous_users
               /\ row.total_authenticated_users
                      = last.data.total_authenticated_users
               /\ row.conversion_rate = last.data.conversion_rate
               /\ row.inactive_users_24hr = last.data.inactive_users_24hr
               /\ (DOMAIN last.before.users = {}) =>
                      /\ row.total_anonymous_users = 0
                      /\ row.total_authenticated_users = 0
                      /\ row.inactive_users_24hr = 0
                      /\ row.conversion_rate = <<"0", "%">>

\* ------------------------------------------------------------------ C7
\* C7, as stated: get_retention_data returns every snapshot written so
\* far, most recent timestamp first, and modifies nothing.
C7_ReturnsSnapshots ==
    (last.op = "get_retention_data") =>
        /\ last.ret = "Rows"
        /\ Len(last.data) = Len(snapshots)
        /\ \A i \in 1..Len(snapshots) : \E j \in 1..Len(last.data) :
              last.data[j] = snapshots[i]
        /\ \A i, j \in 1..Len(last.data) :
              i < j => last.data[i].timestamp >= last.data[j].timestamp
        /\ snapshots = last.before.snapshots
        /\ users = last.before.users

\* ------------------------------------------------------------------ C8
\* C8: an update whose patch holds a role and whose actor's role is not
\* ADMIN returns None and changes no row (the nickname of the same patch
\* is not applied either), and a patch the schema accepts is refused as
\* "Unauthorized role update attempt."; with an ADMIN actor, an existing
\* target and a patch the schema and the table accept, the update returns
\* the user with the role of the patch.
C8_RoleGate ==
    (last.op = "update" /\ last.args.patch.role # None) =>
        LET B == last.before.users
            u == last.args.user_id
            patch == last.args.patch
            accepted == patch.nickname \in NicknamePool \cup {None}
            nickname_taken ==
                \E v \in DOMAIN B \ {u} : B[v].nickname = patch.nickname
        IN  IF last.args.actor_role # "ADMIN"
            THEN /\ last.ret = "None"
                 /\ users = B
                 /\ accepted =>
                        last.log = "Unauthorized role update attempt."
            ELSE (accepted /\ u \in DOMAIN B /\ ~nickname_taken) =>
                    /\ last.ret = "User"
                    /\ users[u].role = patch.role

\* A MANAGER submits a role together with a nickname the target does not
\* hold yet.
C8_Witness ==
    /\ last.op = "update"
    /\ last.args.actor_role = "MANAGER"
    /\ last.args.patch.role = "ADMIN"
    /\ last.args.patch.nickname \in NicknamePool
    /\ last.args.user_id \in DOMAIN last.before.users
    /\ last.before.users[last.args.user_id].nickname
           # last.args.patch.nickname
    /\ last.before.users[last.args.user_id].role # "ADMIN"
    /\ last.log = "Unauthorized role update attempt."

\* ------------------------------------------------------------------ C9
\* C9: an update whose patch holds nothing but None values returns None,
\* logs "No valid fields provided for update." and writes nothing.
C9_EmptyPatch ==
    ( /\ last.op = "update"
      /\ \A k \in DOMAIN last.args.patch : last.args.patch[k] = None )
    => /\ last.ret = "None"
       /\ last.log = "No valid fields provided for update."
       /\ users = last.before.users
       /\ outbox = last.before.outbox
       /\ snapshots = last.before.snapshots

\* An ADMIN submits an all-None patch for an existing user.
C9_Witness ==
    /\ last.op = "update"
    /\ last.args.patch = NoPatch
    /\ last.args.actor_role = "ADMIN"
    /\ last.args.user_id \in DOMAIN last.before.users
    /\ last.ret = "None"

\* ----------------------------------------------------------------- C10
\* C10: a create with an email an existing row holds returns None, logs
\* "User with given email already exists.", adds no row, changes no row
\* and asks for no email to be sent.
C10_DuplicateEmail ==
    ( /\ last.op = "create"
      /\ \E v \in DOMAIN last.before.users :
            last.before.users[v].email = last.args.email )
    => /\ last.ret = "None"
       /\ last.log = "User with given email already exists."
       /\ users = last.before.users
       /\ outbox = last.before.outbox

\* A create with the email of an existing user, while ids remain.
C10_Witness ==
    /\ last.op = "create"
    /\ \E v \in DOMAIN last.before.users :
          last.before.users[v].email = last.args.email
    /\ nextId < MaxIds
    /\ last.ret = "None"
\* ----------------------------------------------------------------- C11
\* C11: under every interleaving of the steps of concurrent create calls
\* with invite_user and delete, no two rows share an email or a nickname;
\* a create whose email or nickname a row already holds when it commits
\* persists nothing: it returns None (the lookup saw the row) or fails with
\* the IntegrityError of the unique constraint, and the table is after it
\* as it was before.
C11_UniqueUnderRace ==
    /\ \A u, v \in DOMAIN users :
          u # v => /\ users[u].email # users[v].email
                   /\ users[u].nickname # users[v].nickname
    /\ ( /\ last.op = "create"
         /\ \E v \in DOMAIN last.before.users :
               \/ last.before.users[v].email = last.args.email
               \/ last.before.users[v].nickname = last.data.nickname )
       => /\ last.ret \in {"None", "Raised"}
          /\ last.ret = "Raised" => last.log = "IntegrityError"
          /\ users = last.before.users
          /\ outbox = last.before.outbox

\* A create that passed the email lookup finds, at its commit, a row with
\* its email that another create has committed in between.
C11_Witness ==
    /\ last.op = "create"
    /\ last.ret = "Raised"
    /\ last.log = "IntegrityError"
    /\ \E v \in DOMAIN users :
          /\ users[v].email = last.args.email
          /\ users[v].nickname # last.data.nickname
    /\ users = last.before.users

\* ----------------------------------------------------------------- C12
\* C12, as stated: a lifecycle call that does not report success (create
\* that returns no user, invite_user that returns False, update that
\* returns None, delete, reset_password, verify_email_with_token or
\* unlock_user_account that does not return True) has left the users table
\* as it was; in particular no row has been added.
C12_AllOrNothing ==
    ( /\ last.op \in {"create", "invite", "update", "delete",
                      "reset_password", "verify", "unlock"}
      /\ last.ret \notin {"User", "True"} )
    => users = last.before.users
\* ----------------------------------------------------------------- C13
\* C13, as stated: no store failure leaves an operation as an exception:
\* a create whose commit violates a constraint returns None, and neither
\* invite_user nor delete raises.
C13_NoExceptionEscapes ==
    /\ (last.op = "create" /\ last.log = "IntegrityError")
           => last.ret = "None"
    /\ last.op \in {"invite", "delete"} => last.ret # "Raised"

\* ----------------------------------------------------------------- C14
\* C14: a login_user call returns None, without raising, and changes no
\* row (failed_login_attempts included) and sends nothing when no row has
\* the email, when the row is not email-verified, or when it is locked,
\* whatever the password.
C14_RefusedLoginChangesNothing ==
    (last.op = "login") =>
        LET B == last.before.users
            holders == {v \in DOMAIN B : B[v].email = last.args.email}
        IN  ( \/ holders = {}
              \/ \E v \in holders : ~B[v].email_verified \/ B[v].is_locked )
            => /\ last.ret = "None"
               /\ users = B
               /\ outbox = last.before.outbox

\* An unverified, unlocked user logs in with a wrong password.
C14_Witness ==
    /\ last.op = "login"
    /\ last.user # NoUser
    /\ ~last.before.users[last.user].email_verified
    /\ ~last.before.users[last.user].is_locked
    /\ last.before.users[last.user].hashed_password
           # hash_password(last.args.password)
    /\ users[last.user].failed_login_attempts = 0
    /\ last.ret = "None"
\* ----------------------------------------------------------------- C15
\* C15: a login_user call with the matching password for an
\* email-verified, unlocked user returns that user, with
\* failed_login_attempts 0 whatever it was and last_login_at the time of
\* the call, and changes nothing else; and login_user returns a user only
\* if that user holds the email, is email-verified, is not locked and the
\* password matches its digest.
C15_SuccessfulLogin ==
    (last.op = "login") =>
        LET B == last.before.users
            good == {v \in DOMAIN B :
                        /\ B[v].email = last.args.email
                        /\ B[v].email_verified
                        /\ ~B[v].is_locked
                        /\ B[v].hashed_password
                               = hash_password(last.args.password)}
        IN  /\ \A v \in good :
                  /\ last.ret = "User"
                  /\ last.user = v
                  /\ users[v].failed_login_attempts = 0
                  /\ users[v].last_login_at = now
                  /\ \A k \in DOMAIN B[v] \ {"failed_login_attempts",
                                             "last_login_at"} :
                        users[v][k] = B[v][k]
                  /\ DOMAIN users = DOMAIN B
                  /\ \A w \in DOMAIN B \ {v} : users[w] = B[w]
            /\ last.ret = "User" => last.user \in good

\* A user who failed once and signed in at an earlier time signs in.
C15_Witness ==
    /\ last.op = "login"
    /\ last.ret = "User"
    /\ last.before.users[last.user].failed_login_attempts > 0
    /\ last.before.users[last.user].last_login_at # NullTime
    /\ last.before.users[last.user].last_login_at < now
    /\ users[last.user].last_login_at = now
\* ----------------------------------------------------------------- C16
\* C16: reset_password for an existing user returns True, stores the
\* digest of the new password, sets failed_login_attempts to 0 and
\* is_locked to false and leaves every other column (email_verified, role
\* and verification_token among them) and every other row unchanged; for
\* an absent user it returns False and changes nothing.
C16_ResetPassword ==
    (last.op = "reset_password") =>
        LET B == last.before.users
            u == last.args.user_id
        IN  IF u \in DOMAIN B
            THEN /\ last.ret = "True"
                 /\ DOMAIN users = DOMAIN B
                 /\ users[u].hashed_password
                        = hash_password(last.args.password)
                 /\ users[u].failed_login_attempts = 0
                 /\ ~users[u].is_locked
                 /\ \A k \in DOMAIN B[u] \ {"hashed_password",
                                            "failed_login_attempts",
                                            "is_locked"} :
                        users[u][k] = B[u][k]
                 /\ \A w \in DOMAIN B \ {u} : users[w] = B[w]
            ELSE last.ret = "False" /\ users = B

\* A locked account is given a password other than the one it had.
C16_Witness ==
    /\ last.op = "reset_password"
    /\ last.ret = "True"
    /\ last.before.users[last.args.user_id].is_locked
    /\ last.before.users[last.args.user_id].failed_login_attempts > 0
    /\ last.before.users[last.args.user_id].hashed_password
           # hash_password(last.args.password)
    /\ users[last.args.user_id].hashed_password
           = hash_password(last.args.password)
\* ----------------------------------------------------------------- C17
\* C17: unlock_user_account for a locked user returns True and sets
\* is_locked to false and failed_login_attempts to 0, changing nothing
\* else; for a user that is not locked, or an absent one, it returns False
\* and changes no column (failed_login_attempts keeps its value).
C17_Unlock ==
    (last.op = "unlock") =>
        LET B == last.before.users
            u == last.args.user_id
        IN  IF u \in DOMAIN B /\ B[u].is_locked
            THEN /\ last.ret = "True"
                 /\ DOMAIN users = DOMAIN B
                 /\ ~users[u].is_locked
                 /\ users[u].failed_login_attempts = 0
                 /\ \A k \in DOMAIN B[u] \ {"failed_login_attempts",
                                            "is_locked"} :
                        users[u][k] = B[u][k]
                 /\ \A w \in DOMAIN B \ {u} : users[w] = B[w]
            ELSE last.ret = "False" /\ users = B

\* An unlock of a user that has failed once and is not locked.
C17_Witness ==
    /\ last.op = "unlock"
    /\ last.args.user_id \in DOMAIN last.before.users
    /\ ~last.before.users[last.args.user_id].is_locked
    /\ last.before.users[last.args.user_id].failed_login_attempts > 0
    /\ users[last.args.user_id].failed_login_attempts > 0
    /\ last.ret = "False"
\* ----------------------------------------------------------------- C18
\* C18, as stated: in every reachable state no email-verified user holds a
\* non-null verification_token, the auto-verified first ADMIN included.
C18_NoTokenOnceVerified ==
    \A u \in DOMAIN users :
        users[u].email_verified => users[u].verification_token = None
\* ----------------------------------------------------------------- C19
\* C19: the role of a user changes only in an update by an ADMIN actor
\* that returns the user, or in a verify_email_with_token call for that
\* user that returns True, and then only from ANONYMOUS to AUTHENTICATED;
\* no other call (login_user, reset_password, unlock_user_account,
\* log_user_activity, invite_user, create, a verification that returns
\* False) changes the role of an existing user; and every verification of
\* an ANONYMOUS user that returns True leaves it AUTHENTICATED.
C19_RoleTransitions ==
    LET B == last.before.users
    IN  /\ \A v \in DOMAIN B \cap DOMAIN users :
              (B[v].role # users[v].role) =>
                  \/ /\ last.op = "update"
                     /\ last.args.actor_role = "ADMIN"
                     /\ last.args.user_id = v
                     /\ last.ret = "User"
                     /\ users[v].role = last.args.patch.role
                  \/ /\ last.op = "verify"
                     /\ last.ret = "True"
                     /\ last.args.user_id = v
                     /\ B[v].role = "ANONYMOUS"
                     /\ users[v].role = "AUTHENTICATED"
        /\ ( /\ last.op = "verify"
             /\ last.ret = "True"
             /\ B[last.args.user_id].role = "ANONYMOUS" )
           => users[last.args.user_id].role = "AUTHENTICATED"

\* A MANAGER verifies its email and stays MANAGER.
C19_Witness ==
    /\ last.op = "verify"
    /\ last.ret = "True"
    /\ last.args.token \in Tokens
    /\ last.before.users[last.args.user_id].role = "MANAGER"
    /\ ~last.before.users[last.args.user_id].email_verified
    /\ users[last.args.user_id].role = "MANAGER"
    /\ users[last.args.user_id].email_verified
\* ----------------------------------------------------------------- C20
\* C20: every call leaves each snapshot row that existed when it began in
\* its place with its values: the table after the call starts with the
\* table before it.
C20_AppendOnly ==
    /\ Len(last.before.snapshots) <= Len(snapshots)
    /\ SubSeq(snapshots, 1, Len(last.before.snapshots))
           = last.before.snapshots

\* No call of this revision writes a snapshot row at all: the table stays
\* empty, and C20_AppendOnly has no row to speak about.
C20_NoSnapshotEver == snapshots = <<>>
WindowOf ==
    [ inactive_users_24hr |-> 24, inactive_users_48hr |-> 2 * 24,
      inactive_users_1wk |-> 7 * 24, inactive_users_1yr |-> 365 * 24 ]

\* The users of a store whose last login lies more than `hours` back.
LoggedInLongerAgo(us, t, hours) ==
    {u \in DOMAIN us :
        us[u].last_login_at # NullTime /\ t - us[u].last_login_at > hours}

C23_NullCountsAsInactive ==
    (last.op = "calculate") =>
        \A k \in DOMAIN WindowOf :
            last.data[k] >=
                Cardinality({u \in DOMAIN last.before.users :
                    last.before.users[u].last_login_at = NullTime})
\* ----------------------------------------------------------------- C24
\* C24, as stated: an invite of an unused email by an existing inviter
\* persists exactly one stub row carrying the email, the inviter's id and
\* a fresh non-null token, and then requests exactly one invitation email
\* embedding that token.
C24_InvitePersistsStub ==
    (/\ last.op = "invite"
     /\ last.args.user_id \in DOMAIN last.before.users
     /\ get_by_email(last.before.users, last.args.email) = NoUser) =>
        \E id \in DOMAIN users \ DOMAIN last.before.users :
            /\ DOMAIN users = DOMAIN last.before.users \cup {id}
            /\ users[id].email = last.args.email
            /\ users[id].invited_by_user_id = last.args.user_id
            /\ users[id].verification_token # None
            /\ outbox = Append(last.before.outbox,
                   [kind |-> "invitation", to |-> last.args.email,
                    token |-> users[id].verification_token])
C28_AtMostOneAdmin ==
    Cardinality({u \in DOMAIN users : users[u].role = "ADMIN"}) <= 1
\* ----------------------------------------------------------------- C29
\* C29, as stated: no failed login is lost when sign-ins overlap.  With
\* nothing but wrong-password sign-ins under way, the failed sign-in of
\* a verified, unlocked user whose stored counter is one below the
\* maximum when it commits leaves the account locked.
C29_NoFailedLoginLost ==
    (/\ last.op = "login"
     /\ last.user # NoUser
     /\ last.before.users[last.user].email_verified
     /\ last.before.users[last.user].is_locked = FALSE
     /\ ~verify_password(last.args.password,
                         last.before.users[last.user].hashed_password)
     /\ last.before.users[last.user].failed_login_attempts
            = MaxLoginAttempts - 1) =>
        users[last.user].is_locked
\* ----------------------------------------------------------------- C26
\* C26, as stated: the counts of one run describe the user store at a
\* single instant, also when verify, role updates, create or delete
\* commit while the run is under way: no user is counted in both totals.
C26_SingleInstant ==
    (last.op = "calculate") =>
        last.data.counted.anonymous \cap last.data.counted.authenticated = {}
====
